---- MODULE Spec2Model ----
(***************************************************************************)
(* Model of tfjs-core/src/backends/webgl/shader_compiler_util.ts: the      *)
(* GLSL code generators getLogicalCoordinatesFromFlatIndex, dotify and     *)
(* getFlatIndexFrom3D, and the GLSL function encode_float of               *)
(* ENCODE_FLOAT_SNIPPET.                                                   *)
(*                                                                         *)
(* Emitted GLSL is modelled as abstract syntax (sequences of statement     *)
(* records carrying the very symbol names and integer literals the         *)
(* template strings produce) together with an interpreter for it, so that  *)
(* both what is emitted and what the emitted code computes can be stated.  *)
(***************************************************************************)
EXTENDS Integers, Sequences, FiniteSets, TLC

VARIABLES
  pc,         \* position of the run: "start", then one step per call made
  shape,      \* shape argument of getLogicalCoordinatesFromFlatIndex / getFlatIndexFrom3D
  index,      \* index argument (symbol name) of getLogicalCoordinatesFromFlatIndex
  flatIndex,  \* value the caller stored in the running index variable
  code,       \* statements returned by getLogicalCoordinatesFromFlatIndex
  run,        \* outcome of executing `code` on the GPU
  x, y,       \* operand lists given to dotify
  dot,        \* outcome of dotify(x, y)
  flatFn,     \* function emitted by getFlatIndexFrom3D
  flat,       \* getFlatIndex(coords) for the coordinates it was evaluated at
  v,          \* highp float argument of encode_float
  rnd,        \* rounding error of log2/exp2 on this GPU, in units of 2^-23
  enc         \* value returned by encode_float

vars == <<pc, shape, index, flatIndex, code, run, x, y, dot, flatFn, flat, v, rnd, enc>>

coordsVars == <<shape, index, flatIndex, code, run>>
dotVars    == <<x, y, dot>>
flatVars   == <<flatFn, flat>>
encVars    == <<v, rnd, enc>>

None == "none"
NotEncoded == [num |-> <<>>, den |-> 0]

-----------------------------------------------------------------------------
(* Bounds of the model.                                                    *)

MaxRank == 3      \* shapes have rank 1..MaxRank
MaxDim == 3       \* small dimension sizes are 1..MaxDim

(* Program constant: the largest literal of the two-term stride split.     *)
MaxLiteral == 65535

(* One dimension size large enough that strides exceed MaxLiteral and      *)
(* 2 * MaxLiteral.                                                         *)
BigDim == MaxLiteral + 1

Dims == (1 .. MaxDim) \cup {BigDim}

(* A GLSL highp int holds 32 bits, and shapes whose size does not fit are   *)
(* not tensors the backend can index: a shape has at most one big          *)
(* dimension, which keeps every size well below 2^31.                      *)
BigCount(s) == Cardinality({i \in DOMAIN s : s[i] > MaxDim})

-----------------------------------------------------------------------------
(* Helpers on sequences of integers.                                       *)

RECURSIVE Product(_)
Product(s) == IF Len(s) = 0 THEN 1 ELSE Head(s) * Product(Tail(s))

RECURSIVE SeqsUpTo(_, _)
SeqsUpTo(S, n) ==
  IF n = 0 THEN {<<>>}
  ELSE LET shorter == SeqsUpTo(S, n - 1)
       IN shorter \cup {Append(s, e) : s \in {t \in shorter : Len(t) = n - 1}, e \in S}

Shapes == {s \in SeqsUpTo(Dims, MaxRank) : Len(s) >= 1 /\ BigCount(s) <= 1}

-----------------------------------------------------------------------------
(* util.computeStrides: row-major strides, one per dimension except the    *)
(* last, strides[i] = product(shape[i+1:]).                                *)

computeStrides(sh) ==
  IF Len(sh) < 2 THEN <<>>
  ELSE [i \in 1 .. Len(sh) - 1 |-> Product(SubSeq(sh, i + 1, Len(sh)))]

-----------------------------------------------------------------------------
(* getLogicalCoordinatesFromFlatIndex                                      *)

(* Mutant: the remainder term of a large stride is one too small.          *)
splitStrideOffByOne(stride) ==
  IF stride > MaxLiteral THEN <<MaxLiteral, stride - MaxLiteral - 1>>
  ELSE <<stride, 0>>

(* `int idx${i}1 = ...; int idx${i}2 = ...;` : the pair of literals.       *)
splitStride(stride) ==
  IF stride > MaxLiteral THEN <<MaxLiteral, stride - MaxLiteral>>
  ELSE <<stride, 0>>

(* The symbol `idx${i}${k}` of the template strings (i is 0-based).        *)
idxSym(i, k) == "idx" \o ToString(i) \o ToString(k)

Stmt(op, lhs, idx, c, a, b, lit) ==
  [op |-> op, lhs |-> lhs, idx |-> idx, c |-> c, a |-> a, b |-> b, lit |-> lit]

(* `int ${lhs} = ${lit}` *)
IntDecl(lhs, lit) == Stmt("int", lhs, "", "", "", "", lit)
(* `int ${lhs} = ${idx} / (${a} + ${b})` *)
DivDecl(lhs, idx, a, b) == Stmt("div", lhs, idx, "", a, b, 0)
(* `int ${lhs} = ${idx} - ${c} * (${a} + ${b})` *)
RemDecl(lhs, idx, c, a, b) == Stmt("rem", lhs, idx, c, a, b, 0)
(* `${idx} -= ${c} * (${a} + ${b})` *)
DecStmt(idx, c, a, b) == Stmt("dec", "", idx, c, a, b, 0)

(* line2 of the map callback; j is the 1-based position of the stride.     *)
line2(coords, ix, j, n) ==
  IF j = n
  THEN RemDecl(coords[j + 1], ix, coords[j], idxSym(j - 1, 1), idxSym(j - 1, 2))
  ELSE DecStmt("index", coords[j], idxSym(j - 1, 1), idxSym(j - 1, 2))

(* The block `${l0};\n${line1};\n${line2};\n` emitted for one stride.      *)
strideBlock(coords, strides, ix, j) ==
  LET l0 == splitStride(strides[j])
  IN << IntDecl(idxSym(j - 1, 1), l0[1]),
        IntDecl(idxSym(j - 1, 2), l0[2]),
        DivDecl(coords[j], ix, idxSym(j - 1, 1), idxSym(j - 1, 2)),
        line2(coords, ix, j, Len(strides)) >>

RECURSIVE joinBlocks(_, _, _, _)
joinBlocks(coords, strides, ix, j) ==
  IF j > Len(strides) THEN <<>>
  ELSE strideBlock(coords, strides, ix, j) \o joinBlocks(coords, strides, ix, j + 1)

getLogicalCoordinatesFromFlatIndex(coords, sh, ix) ==
  joinBlocks(coords, computeStrides(sh), ix, 1)

(* The coordinate symbols the caller passes: distinct identifiers.         *)
coordSym(i) == "coord" \o ToString(i)
coordSyms(n) == [i \in 1 .. n |-> coordSym(i - 1)]

-----------------------------------------------------------------------------
(* Execution of emitted statements: a GLSL scope maps declared symbols to  *)
(* int values; using an undeclared symbol or redeclaring one in the same   *)
(* scope does not compile.                                                 *)

Declared(env, syms) == \A s \in syms : s \in DOMAIN env

Compiled(env) == [status |-> "ok", env |-> env]
CompileError == [status |-> "compile_error", env |-> <<>>]
NotRun == [status |-> "none", env |-> <<>>]

ExecStmt(env, s) ==
  CASE s.op = "int" ->
         IF s.lhs \in DOMAIN env THEN CompileError
         ELSE Compiled((s.lhs :> s.lit) @@ env)
    [] s.op = "div" ->
         IF s.lhs \in DOMAIN env \/ ~Declared(env, {s.idx, s.a, s.b}) THEN CompileError
         ELSE Compiled((s.lhs :> (env[s.idx] \div (env[s.a] + env[s.b]))) @@ env)
    [] s.op = "rem" ->
         IF s.lhs \in DOMAIN env \/ ~Declared(env, {s.idx, s.c, s.a, s.b}) THEN CompileError
         ELSE Compiled((s.lhs :> (env[s.idx] - env[s.c] * (env[s.a] + env[s.b]))) @@ env)
    [] s.op = "dec" ->
         IF ~Declared(env, {s.idx, s.c, s.a, s.b}) THEN CompileError
         ELSE Compiled([env EXCEPT ![s.idx] = @ - env[s.c] * (env[s.a] + env[s.b])])

RECURSIVE Exec(_, _)
Exec(env, stmts) ==
  IF Len(stmts) = 0 THEN Compiled(env)
  ELSE LET next == ExecStmt(env, Head(stmts))
       IN IF next.status = "ok" THEN Exec(next.env, Tail(stmts)) ELSE next

-----------------------------------------------------------------------------
(* Inputs of the coordinate generator: a shape and a flat index inside it. *)

(* Every coordinate of a small dimension; the ends and the middle of the   *)
(* big one.                                                                *)
SampleCoord(d) == IF d <= MaxDim THEN 0 .. d - 1 ELSE {0, d \div 2, d - 1}

RECURSIVE Ravel(_, _)
Ravel(cs, sh) ==
  IF Len(cs) = 0 THEN 0
  ELSE Ravel(SubSeq(cs, 1, Len(cs) - 1), SubSeq(sh, 1, Len(sh) - 1)) * sh[Len(sh)]
       + cs[Len(cs)]

RECURSIVE SampleVecs(_)
SampleVecs(sh) ==
  IF Len(sh) = 0 THEN {<<>>}
  ELSE {Append(cs, c) : cs \in SampleVecs(SubSeq(sh, 1, Len(sh) - 1)),
                        c \in SampleCoord(sh[Len(sh)])}

FlatIndices(sh) == {Ravel(cs, sh) : cs \in SampleVecs(sh)}

IndexSymbols == {"index", "flatIdx"}

IdleCoords == shape = <<>> /\ index = None /\ flatIndex = 0 /\ code = <<>> /\ run = NotRun
IdleDot    == x = <<>> /\ y = <<>> /\ dot = None
IdleFlat   == flatFn = None /\ flat = <<>>
IdleEnc    == v = None /\ rnd = 0 /\ enc = NotEncoded

InitCoords ==
  /\ pc = "start"
  /\ shape \in Shapes
  /\ index \in IndexSymbols
  /\ flatIndex \in FlatIndices(shape)
  /\ code = <<>>
  /\ run = NotRun
  /\ IdleDot /\ IdleFlat /\ IdleEnc

(* The engine calls the generator ...                                      *)
GenerateCoords ==
  /\ pc = "start"
  /\ code' = getLogicalCoordinatesFromFlatIndex(coordSyms(Len(shape)), shape, index)
  /\ pc' = "generated"
  /\ UNCHANGED <<shape, index, flatIndex, run, dotVars, flatVars, encVars>>

(* ... and the GPU runs the fragment in a scope in which the caller has    *)
(* declared the running index variable under the name it supplied.         *)
ExecuteCoords ==
  /\ pc = "generated"
  /\ run' = Exec(index :> flatIndex, code)
  /\ pc' = "executed"
  /\ UNCHANGED <<shape, index, flatIndex, code, dotVars, flatVars, encVars>>

NextCoords == GenerateCoords \/ ExecuteCoords

SpecCoords == InitCoords /\ [][NextCoords]_vars

-----------------------------------------------------------------------------
(* Claims about getLogicalCoordinatesFromFlatIndex.                        *)

(* Row-major unraveling, innermost dimension first, from the shape alone.  *)
RECURSIVE Unravel(_, _)
Unravel(i, sh) ==
  IF Len(sh) = 0 THEN <<>>
  ELSE Append(Unravel(i \div sh[Len(sh)], SubSeq(sh, 1, Len(sh) - 1)), i % sh[Len(sh)])

(* After the fragment ran: every coordinate symbol holds its row-major     *)
(* coordinate, and the two terms declared for stride i sum to              *)
(* product(shape[i+1:]).                                                   *)
CoordsUnravelled ==
  /\ run.status = "ok"
  /\ \A i \in 1 .. Len(shape) :
        /\ coordSym(i - 1) \in DOMAIN run.env
        /\ run.env[coordSym(i - 1)] = Unravel(flatIndex, shape)[i]
  /\ \A i \in 1 .. Len(shape) - 1 :
        /\ {idxSym(i - 1, 1), idxSym(i - 1, 2)} \subseteq DOMAIN run.env
        /\ run.env[idxSym(i - 1, 1)] + run.env[idxSym(i - 1, 2)]
             = Product(SubSeq(shape, i + 1, Len(shape)))

(* C1 as stated: for every shape of rank R >= 1 and every flat index in it, *)
(* running the statements emitted with the default index symbol leaves     *)
(* coords[0..R-1] assigned to the row-major unraveling of the index, with   *)
(* strides[i] = product(shape[i+1:]).                                      *)
C1_UnravelAnyRank ==
  (pc = "executed" /\ index = "index" /\ Len(shape) >= 1) => CoordsUnravelled

(* C1 amended: the same for every shape of rank R >= 2; for rank 1 there is *)
(* no stride, nothing is emitted and coords[0] is never declared.          *)
C1_UnravelRank2Up ==
  /\ (pc = "executed" /\ index = "index" /\ Len(shape) >= 2) => CoordsUnravelled
  /\ (pc = "executed" /\ Len(shape) = 1) =>
        (code = <<>> /\ run.status = "ok" /\ coordSym(0) \notin DOMAIN run.env)

C1_Witness ==
  /\ pc = "executed" /\ index = "index" /\ Len(shape) = 3
  /\ run.status = "ok"
  /\ computeStrides(shape)[1] > 2 * MaxLiteral
  /\ flatIndex > computeStrides(shape)[1]
  /\ run.env[coordSym(0)] > 0 /\ run.env[coordSym(1)] > 0 /\ run.env[coordSym(2)] > 0

(* The integer literals declared by the emitted statements.                *)
(* C3: for every stride s the generator splits into (t1, t2):              *)
(* t1 + t2 = s, t1 <= 65535, and neither literal t1 nor t2 exceeds 65535.   *)
C3_NoLiteralAbove65535 ==
  pc # "start" =>
    /\ \A j \in 1 .. Len(shape) - 1 :
          /\ code[4 * j - 3].lit + code[4 * j - 2].lit = computeStrides(shape)[j]
          /\ code[4 * j - 3].lit <= 65535
    /\ \A k \in DOMAIN code : code[k].op = "int" => code[k].lit <= 65535

(* C9: for any index symbol n and any shape of rank >= 3, every emitted     *)
(* statement that reads or decrements the running index refers to n.        *)
C9_IndexSymbolEverywhere ==
  (pc # "start" /\ Len(shape) >= 3) =>
    \A k \in DOMAIN code :
      code[k].op \in {"div", "rem", "dec"} => code[k].idx = index

-----------------------------------------------------------------------------
(* buildVec and dotify.  Operands and the returned GLSL are strings.       *)

MaxLen == 9       \* operand lists have 0..MaxLen elements

Min(a, b) == IF a < b THEN a ELSE b

(* Array.prototype.join *)
RECURSIVE join(_, _)
join(xs, sep) ==
  IF Len(xs) = 0 THEN ""
  ELSE IF Len(xs) = 1 THEN xs[1]
  ELSE xs[1] \o sep \o join(Tail(xs), sep)

(* Array.prototype.slice(from, to) with 0 <= from <= to: elements          *)
(* from .. to-1 (0-based), cut at the end of the array.                    *)
slice(xs, from, to) == SubSeq(xs, from + 1, Min(to, Len(xs)))

buildVec(xs) ==
  IF Len(xs) = 1 THEN xs[1]
  ELSE "vec" \o ToString(Len(xs)) \o "(" \o join(xs, ",") \o ")"

(* Mutant: the y chunk is written before the x chunk.                      *)
slicePairSwapped(xSlice, ySlice) == buildVec(ySlice) \o ", " \o buildVec(xSlice)

(* `${buildVec(xSlice)}, ${buildVec(ySlice)}` *)
slicePair(xSlice, ySlice) == buildVec(xSlice) \o ", " \o buildVec(ySlice)

(* The for loop over the full vec4 chunks, from iteration i on.            *)
RECURSIVE vec4Slices(_, _, _, _)
vec4Slices(xs, ys, i, nearestVec4) ==
  IF i >= nearestVec4 THEN <<>>
  ELSE <<slicePair(slice(xs, i * 4, i * 4 + 4), slice(ys, i * 4, i * 4 + 4))>>
       \o vec4Slices(xs, ys, i + 1, nearestVec4)

(* xSlice.map(d => `float(${d})`) *)
floatAll(xs) == [i \in DOMAIN xs |-> "float(" \o xs[i] \o ")"]

(* Mutant: the remainder chunk is never coerced.                           *)
remainderSliceBare(xs, ys, nearestVec4) ==
  IF Len(xs) % 4 = 0 THEN <<>>
  ELSE <<slicePair(slice(xs, nearestVec4 * 4, Len(xs)), slice(ys, nearestVec4 * 4, Len(ys)))>>

(* The `if (nearestVec4Remainder !== 0)` block.                            *)
remainderSlice(xs, ys, nearestVec4) ==
  IF Len(xs) % 4 = 0 THEN <<>>
  ELSE LET xSlice == slice(xs, nearestVec4 * 4, Len(xs))
           ySlice == slice(ys, nearestVec4 * 4, Len(ys))
       IN IF Len(xSlice) = 1
          THEN <<slicePair(floatAll(xSlice), floatAll(ySlice))>>
          ELSE <<slicePair(xSlice, ySlice)>>

Returned(text) == [status |-> "returned", text |-> text]
Threw(message) == [status |-> "threw", text |-> None, error |-> message]
NotCalled == [status |-> "none", text |-> None]

dotSlices(xs, ys) ==
  LET nearestVec4 == Len(xs) \div 4
  IN vec4Slices(xs, ys, 0, nearestVec4) \o remainderSlice(xs, ys, nearestVec4)

(* Mutant: only a longer x is rejected.                                    *)
dotifyLooseCheck(xs, ys) ==
  IF Len(xs) > Len(ys)
  THEN Threw("Vectors to be dotted must be of the same length -got "
             \o ToString(Len(xs)) \o " and " \o ToString(Len(ys)))
  ELSE Returned(join([i \in DOMAIN dotSlices(xs, ys) |->
                        "dot(" \o dotSlices(xs, ys)[i] \o ")"], "+"))

dotify(xs, ys) ==
  IF Len(xs) # Len(ys)
  THEN Threw("Vectors to be dotted must be of the same length -got "
             \o ToString(Len(xs)) \o " and " \o ToString(Len(ys)))
  ELSE Returned(join([i \in DOMAIN dotSlices(xs, ys) |->
                        "dot(" \o dotSlices(xs, ys)[i] \o ")"], "+"))

(* Operand lists as the callers build them: one GLSL expression per        *)
(* position, named after a base identifier.                                *)
XBases == {"a", "x"}
YBases == {"b", "y"}
Operands(base, n) == [i \in 1 .. n |-> base \o ToString(i - 1)]

InitDot ==
  /\ pc = "start"
  /\ \E bx \in XBases, n \in 0 .. MaxLen : x = Operands(bx, n)
  /\ \E by \in YBases, n \in 0 .. MaxLen : y = Operands(by, n)
  /\ dot = NotCalled
  /\ IdleCoords /\ IdleFlat /\ IdleEnc

CallDotify ==
  /\ pc = "start"
  /\ dot' = dotify(x, y)
  /\ pc' = "called"
  /\ UNCHANGED <<x, y, coordsVars, flatVars, encVars>>

NextDot == CallDotify

SpecDot == InitDot /\ [][NextDot]_vars

-----------------------------------------------------------------------------
(* Claims about dotify.                                                    *)

(* Number of places at which `sub` occurs in the text `s`.                 *)
Count(sub, s) ==
  Cardinality({i \in 1 .. Len(s) - Len(sub) + 1 : SubSeq(s, i, i + Len(sub) - 1) = sub})

EndsWith(s, suffix) ==
  Len(s) >= Len(suffix) /\ SubSeq(s, Len(s) - Len(suffix) + 1, Len(s)) = suffix

(* Chunk k (0-based) of an operand list.                                   *)
Chunk(xs, k) == SubSeq(xs, 4 * k + 1, Min(4 * k + 4, Len(xs)))

(* A chunk as a vector constructor of its arity, a single operand bare.    *)
ChunkText(c) ==
  CASE Len(c) = 1 -> c[1]
    [] Len(c) = 2 -> "vec2(" \o c[1] \o "," \o c[2] \o ")"
    [] Len(c) = 3 -> "vec3(" \o c[1] \o "," \o c[2] \o "," \o c[3] \o ")"
    [] Len(c) = 4 -> "vec4(" \o c[1] \o "," \o c[2] \o "," \o c[3] \o "," \o c[4] \o ")"

TermText(k, coerced) ==
  IF coerced
  THEN "dot(float(" \o Chunk(x, k)[1] \o "), float(" \o Chunk(y, k)[1] \o "))"
  ELSE "dot(" \o ChunkText(Chunk(x, k)) \o ", " \o ChunkText(Chunk(y, k)) \o ")"

(* The terms 0 .. n-1 joined by '+', the last one coerced or not.          *)
RECURSIVE SumText(_, _, _)
SumText(k, n, coerceLast) ==
  IF k >= n THEN ""
  ELSE TermText(k, coerceLast /\ k = n - 1)
       \o (IF k + 1 < n THEN "+" ELSE "") \o SumText(k + 1, n, coerceLast)

Terms == (Len(x) + 3) \div 4

(* C4: for equal-length lists of any length N >= 0 the result is the       *)
(* '+'-join of exactly ceil(N/4) dot(...) terms, term k pairing chunk k of  *)
(* x first and chunk k of y second, in increasing k with operands in their  *)
(* order, every operand appearing exactly once, and with only vec4 pairs    *)
(* when N mod 4 = 0.                                                       *)
C4_DotTerms ==
  (pc = "called" /\ Len(x) = Len(y)) =>
    /\ dot.status = "returned"
    /\ Count("dot(", dot.text) = Terms
    /\ Count("+", dot.text) = (IF Terms = 0 THEN 0 ELSE Terms - 1)
    /\ dot.text \in {SumText(0, Terms, FALSE)}
                      \cup (IF Len(x) % 4 = 1 THEN {SumText(0, Terms, TRUE)} ELSE {})
    /\ \A i \in DOMAIN x : Count(x[i], dot.text) = 1 /\ Count(y[i], dot.text) = 1
    /\ Len(x) % 4 = 0 => Count("vec4(", dot.text) = 2 * Terms

C4_Witness ==
  /\ pc = "called" /\ Len(x) = 9 /\ Len(y) = 9
  /\ dot.status = "returned"
  /\ Count("dot(", dot.text) = 3

(* C5: dotify fails with the length-mismatch error exactly when the        *)
(* lengths differ, and then produces no text; for equal lengths it returns. *)
C5_LengthMismatch ==
  pc = "called" =>
    /\ dot.status = "threw" <=> Len(x) # Len(y)
    /\ dot.status = "returned" <=> Len(x) = Len(y)
    /\ dot.status = "threw" => dot.text = None
    /\ dot.status = "returned" => dot.text # None

C5_Witness ==
  /\ pc = "called" /\ Len(x) = 4 /\ Len(y) = 5 /\ dot.status = "threw"

(* C10 as stated: float(...) is emitted only when N > 1 and N mod 4 = 1;   *)
(* for N = 1 the operands are emitted bare.                                *)
C10_CoercionOnlyAfterFullChunk ==
  (pc = "called" /\ dot.status = "returned") =>
    /\ Count("float(", dot.text) > 0 <=> (Len(x) > 1 /\ Len(x) % 4 = 1)
    /\ Len(x) = 1 => dot.text = "dot(" \o x[1] \o ", " \o y[1] \o ")"

(* C10 amended: both operands of the remainder chunk are coerced exactly   *)
(* when that chunk has size 1, that is whenever N mod 4 = 1, N = 1          *)
(* included; no operand of a chunk of size 2, 3 or 4 is coerced.            *)
C10_CoercionIffRemainderOne ==
  (pc = "called" /\ dot.status = "returned") =>
    /\ Count("float(", dot.text) = (IF Len(x) % 4 = 1 THEN 2 ELSE 0)
    /\ Len(x) % 4 = 1 =>
         EndsWith(dot.text, "dot(float(" \o x[Len(x)] \o "), float(" \o y[Len(y)] \o "))")
    /\ Len(x) = 1 => dot.text = "dot(float(" \o x[1] \o "), float(" \o y[1] \o "))"

C10_Witness ==
  /\ pc = "called" /\ Len(x) = 1 /\ Len(y) = 1
  /\ dot.text = "dot(float(a0), float(b0))"

-----------------------------------------------------------------------------
(* getFlatIndexFrom3D                                                      *)

(* Number.prototype.toString of a non-negative integer below 1e21.         *)
toString(n) == ToString(n)

DigitValue(ch) ==
  CASE ch = "0" -> 0 [] ch = "1" -> 1 [] ch = "2" -> 2 [] ch = "3" -> 3 [] ch = "4" -> 4
    [] ch = "5" -> 5 [] ch = "6" -> 6 [] ch = "7" -> 7 [] ch = "8" -> 8 [] ch = "9" -> 9
    [] OTHER -> -1

(* parseInt: the leading decimal digits of the string.                     *)
RECURSIVE parseDigits(_, _)
parseDigits(str, acc) ==
  IF Len(str) = 0 \/ DigitValue(SubSeq(str, 1, 1)) < 0 THEN acc
  ELSE parseDigits(SubSeq(str, 2, Len(str)), acc * 10 + DigitValue(SubSeq(str, 1, 1)))

parseInt(str) == parseDigits(str, 0)

(* Mutant: the second term of a large stride is the whole stride.          *)
splitStride3DNoSubtract(stride) ==
  IF stride > MaxLiteral THEN <<MaxLiteral, stride>>
  ELSE <<stride, 0>>

(* `int idx1 = ...; int idx2 = ...;` of getFlatIndexFrom3D.                *)
splitStride3D(stride) ==
  IF stride > MaxLiteral THEN <<MaxLiteral, stride - MaxLiteral>>
  ELSE <<stride, 0>>

(* The emitted function                                                    *)
(*   int getFlatIndex(ivec3 coords) {                                      *)
(*     int idx1 = ..; int idx2 = ..;                                       *)
(*     return coords.x * (idx1 + idx2) + coords.y * ${strides[1]} + coords.z; } *)
(* as its declarations and the operands of its return expression.          *)
getFlatIndexFrom3D(sh) ==
  LET strides == [i \in DOMAIN computeStrides(sh) |-> toString(computeStrides(sh)[i])]
      stride == parseInt(strides[1])
      l0 == splitStride3D(stride)
  IN [decls |-> <<IntDecl("idx1", l0[1]), IntDecl("idx2", l0[2])>>,
      xa |-> "idx1", xb |-> "idx2", yLiteral |-> strides[2]]

(* Evaluation of the emitted getFlatIndex at an ivec3.                     *)
getFlatIndex(fn, coords) ==
  LET body == Exec(<<>>, fn.decls)
  IN coords[1] * (body.env[fn.xa] + body.env[fn.xb])
     + coords[2] * parseInt(fn.yLiteral) + coords[3]

InitFlat ==
  /\ pc = "start"
  /\ shape \in {sh \in Shapes : Len(sh) = 3}
  /\ index = None /\ flatIndex = 0 /\ code = <<>> /\ run = NotRun
  /\ flatFn = None
  /\ flat = <<>>
  /\ IdleDot /\ IdleEnc

GenerateFlat ==
  /\ pc = "start"
  /\ flatFn' = getFlatIndexFrom3D(shape)
  /\ pc' = "generated"
  /\ UNCHANGED <<coordsVars, flat, dotVars, encVars>>

(* The GPU evaluates the function over the grid of the shape.              *)
EvaluateFlat ==
  /\ pc = "generated"
  /\ flat' = [c \in SampleVecs(shape) |-> getFlatIndex(flatFn, c)]
  /\ pc' = "evaluated"
  /\ UNCHANGED <<coordsVars, flatFn, dotVars, encVars>>

NextFlat == GenerateFlat \/ EvaluateFlat

SpecFlat == InitFlat /\ [][NextFlat]_vars

(* C2: for every shape [a, b, c] the emitted function returns              *)
(* x*(b*c) + y*c + z at every (x, y, z) of the grid; the results are        *)
(* pairwise distinct and cover exactly 0 .. a*b*c - 1, whether or not       *)
(* stride0 = b*c exceeds 65535.                                            *)
C2_FlatIndexRowMajor ==
  pc = "evaluated" =>
    /\ \A c \in DOMAIN flat :
         /\ flat[c] = c[1] * (shape[2] * shape[3]) + c[2] * shape[3] + c[3]
         /\ flat[c] = Ravel(c, shape)
         /\ flat[c] \in 0 .. shape[1] * shape[2] * shape[3] - 1
    /\ \A c, d \in DOMAIN flat : flat[c] = flat[d] => c = d
    /\ BigCount(shape) = 0 =>
         {flat[c] : c \in DOMAIN flat} = 0 .. shape[1] * shape[2] * shape[3] - 1

C2_Witness ==
  /\ pc = "evaluated"
  /\ shape[2] * shape[3] > 2 * MaxLiteral
  /\ shape[1] = 3
  /\ \E c \in DOMAIN flat : c[1] = 2 /\ c[2] = 1 /\ flat[c] > 4 * MaxLiteral

-----------------------------------------------------------------------------
(* ENCODE_FLOAT_SNIPPET: encode_float.                                     *)
(*                                                                         *)
(* A highp float is its IEEE-754 single-precision fields: sign (1 bit),    *)
(* biased exponent exp (8 bits), mantissa man (23 bits).  exp = 255 is     *)
(* Infinity (man = 0) or NaN, exp = 0 is zero or a subnormal, and any      *)
(* other value is sign * 2^(exp-127) * (1 + man/2^23).                     *)

ExpSpan == 2       \* exponents sampled within ExpSpan of 0, 127 and 255
ManSpan == 1       \* mantissas sampled within ManSpan of the byte borders
MaxRounding == 1   \* rounding error of log2/exp2, in units of 2^-23

Float(sign, exp, man) == [sign |-> sign, exp |-> exp, man |-> man]

(* const float FLOAT_MAX = 1.70141184e38 = 2^127;                          *)
(* const float FLOAT_MIN = 1.17549435e-38 = 2^-126.                        *)
FLOAT_MAX == Float(0, 254, 0)
FLOAT_MIN == Float(0, 1, 0)
Zero == Float(0, 0, 0)

isnan(f) == f.exp = 255 /\ f.man # 0
abs(f) == [f EXCEPT !.sign = 0]
neg(f) == [f EXCEPT !.sign = 1 - @]
isZero(f) == f.exp = 0 /\ f.man = 0

(* a < b on floats that are not NaN.                                       *)
magLess(a, b) == a.exp < b.exp \/ (a.exp = b.exp /\ a.man < b.man)
lessThan(a, b) ==
  IF isZero(a) /\ isZero(b) THEN FALSE
  ELSE IF a.sign # b.sign THEN a.sign = 1
  ELSE IF a.sign = 0 THEN magLess(a, b)
  ELSE magLess(b, a)

(* step(edge, x): 0.0 if x < edge, else 1.0 *)
step(edge, f) == IF lessThan(f, edge) THEN 0 ELSE 1

(* Fractions of the mantissa path are counted in units of 2^-23.           *)
One == 2^23

(* highp float e = floor(log2(av)): the unbiased exponent of a normal av.  *)
floorLog2(av) == av.exp - 127

(* highp float m = exp2(fract(log2(av))) - 1.0: the mantissa fraction      *)
(* man/2^23 of a normal av, off by the rounding of log2 and exp2.          *)
mantissaFraction(av, rounding) == av.man + rounding

vec4(c0, c1, c2, c3, den) == [num |-> <<c0, c1, c2, c3>>, den |-> den]

(* An early `return`, or control reaching line 127.                        *)
Return(value) == [taken |-> TRUE, value |-> value]
FallThrough == [taken |-> FALSE, value |-> vec4(0, 0, 0, 0, 1)]

(* Mutant: the overflow tests include FLOAT_MAX itself.                    *)
sentinelInclusive(f) ==
  IF isnan(f) THEN Return(vec4(255, 255, 255, 255, 1))
  ELSE IF lessThan(abs(f), FLOAT_MIN) THEN Return(vec4(0, 0, 0, 0, 1))
  ELSE IF ~lessThan(f, FLOAT_MAX) THEN Return(vec4(0, 0, 128, 127, 255))
  ELSE IF ~lessThan(neg(FLOAT_MAX), f) THEN Return(vec4(0, 0, 128, 255, 255))
  ELSE FallThrough

(* Lines 113-125: the early returns, FallThrough when none is taken.       *)
(* `return vec4(255, 255, 255, 255)` and `return vec4(0.0, ...)` are not    *)
(* divided by 255.0; the two Infinity sentinels are.                       *)
sentinel(f) ==
  IF isnan(f) THEN Return(vec4(255, 255, 255, 255, 1))
  ELSE IF lessThan(abs(f), FLOAT_MIN) THEN Return(vec4(0, 0, 0, 0, 1))
  ELSE IF lessThan(FLOAT_MAX, f) THEN Return(vec4(0, 0, 128, 127, 255))
  ELSE IF lessThan(f, neg(FLOAT_MAX)) THEN Return(vec4(0, 0, 128, 255, 255))
  ELSE FallThrough

(* Mutant: the low and the middle mantissa byte change places.             *)
mantissaBytesSwapped(m) ==
  LET c2 == (128 * m) \div One
      m1 == m - (c2 * One) \div 128
      c1 == (32768 * m1) \div One
      m2 == m1 - (c1 * One) \div 32768
      c0 == (8388608 * m2) \div One
  IN <<c1, c0, c2>>

(* Lines 132-136 on m (in units of 2^-23):                                 *)
(*   c[2] = floor(128.0 * m);     m -= c[2] / 128.0;                        *)
(*   c[1] = floor(32768.0 * m);   m -= c[1] / 32768.0;                      *)
(*   c[0] = floor(8388608.0 * m);                                          *)
mantissaBytes(m) ==
  LET c2 == (128 * m) \div One
      m1 == m - (c2 * One) \div 128
      c1 == (32768 * m1) \div One
      m2 == m1 - (c1 * One) \div 32768
      c0 == (8388608 * m2) \div One
  IN <<c0, c1, c2>>

(* Lines 127-145: the path of a normal value.                              *)
encodeNormal(f, rounding) ==
  LET av == abs(f)
      e == floorLog2(av)
      m == mantissaFraction(av, rounding)
      mb == mantissaBytes(m)
      ebias == e + 127
      c3 == ebias \div 2
      ebias1 == ebias - c3 * 2
      c2 == mb[3] + ebias1 * 128
  IN vec4(mb[1], mb[2], c2, c3 + 128 * step(Zero, neg(f)), 255)

encode_float(f, rounding) ==
  IF sentinel(f).taken THEN sentinel(f).value ELSE encodeNormal(f, rounding)

Exps == (0 .. ExpSpan) \cup (127 - ExpSpan .. 127 + ExpSpan) \cup (255 - ExpSpan .. 255)
Mans == {k \in (0 .. ManSpan) \cup (255 - ManSpan .. 256 + ManSpan)
                \cup (65535 - ManSpan .. 65536 + ManSpan)
                \cup (One \div 2 - ManSpan .. One \div 2 + ManSpan)
                \cup (One - 1 - ManSpan .. One - 1) : k >= 0 /\ k < One}
Floats == {Float(s, e, k) : s \in {0, 1}, e \in Exps, k \in Mans}

(* log2 of a power of two is an integer and comes back exactly; any other  *)
(* logarithm is irrational, so its float is rounded and the fraction       *)
(* recovered by exp2 may miss man/2^23 by a few units, staying in [0, 1).   *)
Roundings(f) ==
  IF f.man = 0 THEN {0}
  ELSE {r \in -MaxRounding .. MaxRounding : f.man + r >= 0 /\ f.man + r < One}

InitEnc ==
  /\ pc = "start"
  /\ v \in Floats
  /\ rnd \in Roundings(v)
  /\ enc = NotEncoded
  /\ IdleCoords /\ IdleDot /\ IdleFlat

CallEncodeFloat ==
  /\ pc = "start"
  /\ enc' = encode_float(v, rnd)
  /\ pc' = "called"
  /\ UNCHANGED <<v, rnd, coordsVars, dotVars, flatVars>>

NextEnc == CallEncodeFloat

SpecEnc == InitEnc /\ [][NextEnc]_vars

-----------------------------------------------------------------------------
(* Claims about encode_float.                                              *)

IsNaN == v.exp = 255 /\ v.man # 0
(* FLOAT_MIN <= |v| <= FLOAT_MAX, read off the fields.                     *)
InRange == v.exp \in 1 .. 253 \/ (v.exp = 254 /\ v.man = 0)

(* C6: for every input the four returned channels lie in [0,1]; for NaN    *)
(* the result is (255,255,255,255)/255, whatever the other rules say.      *)
C6_ChannelsNormalised ==
  pc = "called" =>
    /\ \A i \in 1 .. 4 : enc.num[i] >= 0 /\ enc.num[i] <= enc.den
    /\ IsNaN => (enc.num = <<255, 255, 255, 255>> /\ enc.den = 255)

(* C7: for v that is not NaN, |v| < FLOAT_MIN gives exactly (0,0,0,0),     *)
(* v > FLOAT_MAX gives (0,0,128,127)/255 and v < -FLOAT_MAX gives           *)
(* (0,0,128,255)/255, and a value with FLOAT_MIN <= |v| <= FLOAT_MAX gets   *)
(* none of the three.                                                      *)
C7_RangeSentinels ==
  (pc = "called" /\ ~IsNaN) =>
    /\ v.exp = 0 => enc.num = <<0, 0, 0, 0>>
    /\ (v.exp # 0 /\ ~InRange /\ v.sign = 0) =>
          (enc.num = <<0, 0, 128, 127>> /\ enc.den = 255)
    /\ (v.exp # 0 /\ ~InRange /\ v.sign = 1) =>
          (enc.num = <<0, 0, 128, 255>> /\ enc.den = 255)
    /\ InRange =>
          /\ ~sentinel(v).taken
          /\ enc.num \notin {<<0, 0, 0, 0>>, <<0, 0, 128, 127>>, <<0, 0, 128, 255>>}

C7_Witness ==
  /\ pc = "called"
  /\ v = Float(0, 254, 1)
  /\ enc.num = <<0, 0, 128, 127>>

(* The bytes of the IEEE-754 bit pattern with fields (sign, exp, man),     *)
(* least significant first.                                                *)
PatternBytes(sign, exp, man) ==
  << man % 256,
     (man \div 256) % 256,
     man \div 65536 + 128 * (exp % 2),
     exp \div 2 + 128 * sign >>

====
